---- MODULE Spec2Model ----
(***************************************************************************)
(* Model of terraform-provider-checkmate: the retry engine                 *)
(* (pkg/helpers RetryWindow.Do), the HTTP probe's attempt closure          *)
(* (pkg/healthcheck HealthCheck), the status-code pattern matcher          *)
(* (checkStatusCode), and whole probe sessions: HealthCheck, TCPEcho and   *)
(* RunCommand from their call to their return, each running its closure    *)
(* under RetryWindow.Do, and the Create of the resource around them.       *)
(*                                                                         *)
(* Strings that the code scans character by character (the status-code     *)
(* pattern) are sequences of one-character strings.  Time is a discrete    *)
(* clock `now`, counted in ticks since the call to Do: an action or a      *)
(* sleep lasts a number of ticks, every other step takes no time and runs  *)
(* before the clock moves on.  Steps that are ready at the same tick       *)
(* interleave in any order (a send and the timer ready together: Do's      *)
(* select may take either).                                                *)
(***************************************************************************)
EXTENDS Integers, Sequences, FiniteSets, TLC

\* ---------------------------------------------------------------- bounds
MaxPatLen == 5
MaxCode == 11
MaxTimeout == 4
MaxInterval == 2
MaxSuccesses == 3
MaxNegSuccesses == 1
MaxDur == 2
MaxHttpAttempts == 3

\* ------------------------------------------------------------- variables
VARIABLES
    pattern,      \* checkStatusCode: the pattern argument
    code,         \* checkStatusCode: the code argument
    scResult,     \* checkStatusCode: what the call returned, NoCall before it
    r,            \* Do: the RetryWindow (Timeout, Interval, ConsecutiveSuccesses)
    now,          \* Do: ticks elapsed since Do was called
    gpc,          \* Do: where the attempt goroutine is
    wait,         \* Do: ticks left of the running action or sleep (Hang: never ends)
    attempt,      \* Do: the goroutine's attempt counter
    successCount, \* Do: the goroutine's successCount
    ctxDone,      \* Do: r.Context.Done() is closed
    result,       \* Do: what Do returned to its caller, "none" while it waits
    history,      \* Do: the invocations of action that have returned, in order
    sigAt,        \* Do: the tick at which the goroutine first reached a send
    obsAt,        \* Do: the tick at which the loop saw the context cancelled
    retAt,        \* Do: the tick at which Do returned
    endAt,        \* Do: the tick at which the last invocation of action returned
    data,         \* HealthCheck: the HttpHealthArgs the closure reads and writes
    diag,         \* HealthCheck: the diagnostics (counts of errors and warnings)
    httpAttempts, \* HealthCheck: the invocations of the attempt closure so far
    lastResp,     \* HealthCheck: what client.Do gave the most recent attempt
    lastRet,      \* HealthCheck: what the most recent attempt returned
    bodyAt,       \* HealthCheck: the attempt that wrote data.ResultBody (0: none)
    probe,        \* probe session: which probe function runs ("none": no session)
    ppc,          \* probe session: where the probe function is
    opts,         \* probe session: the arguments the probe function reads
    passed,       \* probe session: data.Passed
    perr,         \* probe session: the error HealthCheck returned
    host,         \* probe session: where the resource's Create is
    tcpRef,       \* TCPEcho: firstAttemptRegexValue
    tcpRefAt,     \* TCPEcho: regexValueStoredAttempt
    tcpLast,      \* TCPEcho: what the most recent attempt met and returned
    tcpSeen,      \* TCPEcho: the distinct values the regex extracted, in order
    conns,        \* TCPEcho: the connections that are open
    dialed,       \* TCPEcho: what d.Dial gave the running attempt ("no": not called)
    cmdOut,       \* RunCommand: data.Stdout and data.Stderr
    cmdOutAt,     \* RunCommand: the attempt that wrote them (0: none of this session)
    files,        \* EnsureFile: the files it has created
    aborted,      \* RunCommand: the attempt whose command the cancellation killed (0: none)
    legVariant,   \* legacy Do: which of the two engines of internal/helpers runs
    legW,         \* legacy Do: its RetryWindow
    legNow,       \* legacy Do: ticks elapsed since Do was called
    legPc,        \* legacy Do: where the goroutine is
    legWait,      \* legacy Do: ticks left of the running action or sleep
    retries,      \* legacy Do, MaxRetries engine: the goroutine's retries
    legAttempt,   \* legacy Do, MaxTries engine: the loop counter attempt
    legSuccessCount, \* legacy Do: the goroutine's successCount
    legResult,    \* legacy Do: what Do returned, "none" while it waits
    legCalls,     \* legacy Do: the invocations of action that have returned
    legEndAt,     \* legacy Do: the tick at which the last of them returned
    legRetAt      \* legacy Do: the tick at which Do returned

scVars == <<pattern, code, scResult>>
doVars == <<r, now, gpc, wait, attempt, successCount, ctxDone, result, history,
            sigAt, obsAt, retAt, endAt>>
httpVars == <<data, diag, httpAttempts, lastResp, lastRet, bodyAt>>
probeVars == <<probe, ppc, opts, passed, perr, host, tcpRef, tcpRefAt, tcpLast,
               tcpSeen, conns, dialed, cmdOut, cmdOutAt, files, aborted>>
legVars == <<legVariant, legW, legNow, legPc, legWait, retries, legAttempt,
             legSuccessCount, legResult, legCalls, legEndAt, legRetAt>>
vars == <<scVars, doVars, httpVars, probeVars, legVars>>
notScVars == <<doVars, httpVars, probeVars, legVars>>
notDoVars == <<scVars, httpVars, probeVars, legVars>>
notHttpVars == <<scVars, doVars, probeVars, legVars>>
notLegVars == <<scVars, doVars, httpVars, probeVars>>

\* =========================================================================
\* checkStatusCode (pkg/healthcheck/http.go, pkg/provider)
\* =========================================================================
\* "x" stands for any character that is no digit, sign, comma or dash.
Digits == {"0", "1"}
PatternChars == Digits \cup {",", "-", "x"}

RECURSIVE SeqsUpTo(_, _)
SeqsUpTo(S, n) ==
    IF n = 0 THEN {<<>>}
    ELSE LET shorter == SeqsUpTo(S, n - 1)
         IN  shorter \cup {Append(s, c) : s \in {t \in shorter : Len(t) = n - 1}, c \in S}

Patterns == SeqsUpTo(PatternChars, MaxPatLen)
Codes == 0..MaxCode

\* strings.Split(s, sep) for a one-character separator: the pieces between
\* the separators, empty pieces included; always at least one piece.
RECURSIVE Split(_, _)
Split(s, sep) ==
    IF \A i \in 1..Len(s) : s[i] # sep THEN <<s>>
    ELSE LET i == CHOOSE k \in 1..Len(s) :
                      s[k] = sep /\ \A j \in 1..(k - 1) : s[j] # sep
         IN  <<SubSeq(s, 1, i - 1)>> \o Split(SubSeq(s, i + 1, Len(s)), sep)

DigitVal(c) == IF c = "1" THEN 1 ELSE 0

RECURSIVE DecVal(_)
DecVal(s) == IF Len(s) = 0 THEN 0
             ELSE 10 * DecVal(SubSeq(s, 1, Len(s) - 1)) + DigitVal(s[Len(s)])

\* strconv.Atoi on a piece that holds no sign (a "-" never survives the
\* split on "-"): an error for the empty string and for any non-digit.
Atoi(s) ==
    IF Len(s) = 0 \/ \E i \in 1..Len(s) : s[i] \notin Digits
    THEN [err |-> TRUE, val |-> 0]
    ELSE [err |-> FALSE, val |-> DecVal(s)]

\* What one call returns: the boolean, the kind of the returned error
\* ("nil" for none) and whether diagAddError was called.
ScOut(ok, err, added) == [ok |-> ok, err |-> err, diag |-> added]

inRangeExclusive(left, right, c) == left < c /\ right > c

\* The test of a code against one range.
inRange(left, right, c) == left <= c /\ right >= c

\* The body of the loop over the ranges, from segment i on.
RECURSIVE checkRanges(_, _, _)
checkRanges(ranges, i, c) ==
    IF i > Len(ranges) THEN ScOut(FALSE, "nomatch", FALSE)
    ELSE
      LET bounds == Split(ranges[i], "-") IN
      IF Len(bounds) = 2 THEN
        LET left  == Atoi(bounds[1])
            right == Atoi(bounds[2])
        IN  IF left.err THEN ScOut(FALSE, "convert", TRUE)
            ELSE IF right.err THEN ScOut(FALSE, "convert", TRUE)
            ELSE IF left.val > right.val THEN ScOut(FALSE, "bounds", TRUE)
            ELSE IF inRange(left.val, right.val, c) THEN ScOut(TRUE, "nil", FALSE)
            ELSE checkRanges(ranges, i + 1, c)
      ELSE IF Len(bounds) = 1 THEN
        LET val == Atoi(bounds[1])
        IN  IF val.err THEN ScOut(FALSE, "convert", TRUE)
            ELSE IF val.val = c THEN ScOut(TRUE, "nil", FALSE)
            ELSE checkRanges(ranges, i + 1, c)
      ELSE ScOut(FALSE, "dashes", TRUE)

checkStatusCode(p, c) == checkRanges(Split(p, ","), 1, c)

NoCall == [ok |-> FALSE, err |-> "nocall", diag |-> FALSE]

\* ---- the pattern grammar, stated on positions of the pattern ------------
\* A segment is a maximal comma-free stretch a..b (empty when b = a - 1).
Segments(p) ==
    {ab \in (1..(Len(p) + 1)) \X (0..Len(p)) :
        /\ ab[2] >= ab[1] - 1
        /\ (ab[1] = 1 \/ p[ab[1] - 1] = ",")
        /\ (ab[2] = Len(p) \/ p[ab[2] + 1] = ",")
        /\ \A i \in ab[1]..ab[2] : p[i] # ","}

IsNumber(p, a, b) == a <= b /\ \A i \in a..b : p[i] \in Digits

RECURSIVE Pow10(_)
Pow10(n) == IF n = 0 THEN 1 ELSE 10 * Pow10(n - 1)

RECURSIVE NumberAt(_, _, _)
NumberAt(p, a, b) ==
    IF a > b THEN 0 ELSE DigitVal(p[a]) * Pow10(b - a) + NumberAt(p, a + 1, b)

\* The dash positions that make a..b a range lo-hi of two integers.
RangeDashes(p, a, b) ==
    {d \in a..b : p[d] = "-" /\ IsNumber(p, a, d - 1) /\ IsNumber(p, d + 1, b)}

SegmentWellFormed(p, a, b) ==
    \/ IsNumber(p, a, b)
    \/ \E d \in RangeDashes(p, a, b) : NumberAt(p, a, d - 1) <= NumberAt(p, d + 1, b)

SegmentAccepts(p, a, b, c) ==
    \/ IsNumber(p, a, b) /\ NumberAt(p, a, b) = c
    \/ \E d \in RangeDashes(p, a, b) :
          NumberAt(p, a, d - 1) <= c /\ c <= NumberAt(p, d + 1, b)

WellFormedPattern(p) == \A ab \in Segments(p) : SegmentWellFormed(p, ab[1], ab[2])
PatternAccepts(p, c) == \E ab \in Segments(p) : SegmentAccepts(p, ab[1], ab[2], c)

\* ---- the state of the parts that a specification does not run -----------
\* Marks for a tick that has not come and for an action that never returns.
NoTime == 0 - 1
Hang == 0 - 1
MaxTime == MaxTimeout + 2

IdleDo ==
    /\ r = [Timeout |-> 1, Interval |-> 0, ConsecutiveSuccesses |-> 1]
    /\ now = 0 /\ gpc = "idle" /\ wait = 0 /\ attempt = 0 /\ successCount = 0
    /\ ctxDone = FALSE /\ result = "none" /\ history = <<>>
    /\ sigAt = NoTime /\ obsAt = NoTime /\ retAt = NoTime /\ endAt = NoTime

NoResp == [kind |-> "none", status |-> 0, body |-> "", readErr |-> FALSE]

IdleHttp ==
    /\ data = [StatusCode |-> <<>>, JSONPath |-> "", JSONValue |-> "", ResultBody |-> ""]
    /\ diag = [errors |-> 0, warnings |-> 0]
    /\ httpAttempts = 0 /\ lastResp = NoResp /\ lastRet = FALSE /\ bodyAt = 0

IdleStatusCode == pattern = <<>> /\ code = 0 /\ scResult = NoCall

NoOpts ==
    [IgnoreFailure |-> FALSE, URLOk |-> TRUE, CABundle |-> "", InsecureTLS |-> FALSE,
     diagNil |-> FALSE, ExpectWriteFailure |-> FALSE, ExpectedMessage |-> "",
     PersistentResponseRegex |-> "", CreateFile |-> FALSE, pre |-> "none"]

NoAttempt == [kind |-> "none", deadlineErr |-> FALSE, reply |-> "", ret |-> FALSE]

IdleProbe ==
    /\ probe = "none" /\ ppc = "idle" /\ opts = NoOpts /\ passed = FALSE
    /\ perr = "none" /\ host = "none"
    /\ tcpRef = "" /\ tcpRefAt = 0 /\ tcpLast = NoAttempt /\ tcpSeen = <<>>
    /\ conns = 0 /\ dialed = "no"
    /\ cmdOut = "null" /\ cmdOutAt = 0 /\ files = 0 /\ aborted = 0

IdleLegacy ==
    /\ legVariant = "none"
    /\ legW = [MaxRetries |-> 0, MaxTries |-> 0, Timeout |-> 1, Interval |-> 0,
               ConsecutiveSuccesses |-> 1]
    /\ legNow = 0 /\ legPc = "idle" /\ legWait = 0 /\ retries = 0 /\ legAttempt = 0
    /\ legSuccessCount = 0 /\ legResult = "none" /\ legCalls = 0
    /\ legEndAt = NoTime /\ legRetAt = NoTime

InitStatusCode ==
    /\ pattern \in Patterns
    /\ code \in Codes
    /\ scResult = NoCall
    /\ IdleDo /\ IdleHttp /\ IdleProbe /\ IdleLegacy

\* One call checkStatusCode(pattern, code, diag) on a fresh diagnostics list.
CallCheckStatusCode ==
    /\ scResult = NoCall
    /\ scResult' = checkStatusCode(pattern, code)
    /\ UNCHANGED <<pattern, code, notScVars>>

NextStatusCode == CallCheckStatusCode

SpecStatusCode == InitStatusCode /\ [][NextStatusCode]_vars

\* C9: for a well-formed pattern, checkStatusCode returns true exactly when
\* the code equals a singleton or lies in a range of the pattern (ranges may
\* overlap), and it records no error diagnostic.
C9_MatchesIffInPattern ==
    (scResult # NoCall /\ WellFormedPattern(pattern)) =>
        /\ scResult.ok <=> PatternAccepts(pattern, code)
        /\ ~scResult.diag

\* A call on a pattern with two overlapping segments that both hold the code.
C9_Witness ==
    /\ scResult # NoCall
    /\ WellFormedPattern(pattern)
    /\ scResult.ok
    /\ Cardinality({ab \in Segments(pattern) :
                       SegmentAccepts(pattern, ab[1], ab[2], code)}) >= 2

\* C10: for a pattern with a malformed segment, every call reports a parse
\* error and returns false, whatever the code.
C10_MalformedAlwaysRejected ==
    (scResult # NoCall /\ ~WellFormedPattern(pattern)) =>
        (scResult.diag /\ ~scResult.ok)

\* =========================================================================
\* RetryWindow.Do (pkg/helpers/retry.go)
\* =========================================================================
RetryWindows ==
    [Timeout : 1..MaxTimeout, Interval : 0..MaxInterval,
     ConsecutiveSuccesses : (0 - MaxNegSuccesses)..MaxSuccesses]

\* How long one invocation of action runs: a number of ticks, or for ever.
\* An invocation takes time, so a loop without sleep cannot spin in no time.
Durations(w) == {d \in 0..MaxDur : w.Interval > 0 \/ d > 0} \cup {Hang}

\* The state when Do has made its channels and started the goroutine, and
\* waits in its select.
InitDo ==
    /\ r \in RetryWindows
    /\ now = 0 /\ gpc = "select" /\ wait = 0 /\ attempt = 0 /\ successCount = 0
    /\ ctxDone \in BOOLEAN /\ result = "none" /\ history = <<>>
    /\ sigAt = NoTime /\ obsAt = NoTime /\ retAt = NoTime /\ endAt = NoTime
    /\ IdleStatusCode /\ IdleHttp /\ IdleProbe /\ IdleLegacy

reachedSuccessesOffByOne(count, w) == count > w.ConsecutiveSuccesses

\* The test that ends the loop with a success.
reachedSuccesses(count, w) == count >= w.ConsecutiveSuccesses

afterFailureKeep(count) == count

\* The success count after an action that returned false.
afterFailure(count) == 0

onCancelledSuccess == "sendSuccess"

\* Where the loop goes when r.Context.Done() is ready: the send on failure.
onCancelled == "sendFailure"

doneReadyNever(done) == FALSE

\* The select of the loop takes case <-r.Context.Done() when that channel is
\* ready (closed), and its default case only when it is not.
doneReady(done) == done

\* The top of the loop: the select on r.Context.Done() with a default. The
\* default case counts the attempt and invokes action.
LoopSelect ==
    /\ gpc = "select"
    /\ IF doneReady(ctxDone)
       THEN /\ gpc' = onCancelled
            /\ sigAt' = IF sigAt = NoTime THEN now ELSE sigAt
            /\ obsAt' = IF result = "none" THEN now ELSE obsAt
            /\ UNCHANGED <<attempt, wait>>
       ELSE /\ attempt' = attempt + 1
            /\ gpc' = "action"
            /\ \E d \in Durations(r) : wait' = d
            /\ UNCHANGED <<sigAt, obsAt>>
    /\ UNCHANGED <<r, now, successCount, ctxDone, result, history, retAt, endAt,
                   notDoVars>>

sleepTimeNone(w) == 0

\* time.Sleep(r.Interval): how long the loop sleeps between two attempts.
sleepTime(w) == w.Interval

\* What the loop does with the value b that action(attempt, successCount)
\* returned.
LoopAfterAction(b) ==
    /\ gpc = "action" /\ wait = 0
    /\ endAt' = now
    /\ history' = Append(history,
           [attempt |-> attempt, successes |-> successCount, ret |-> b])
    /\ IF b
       THEN /\ successCount' = successCount + 1
            /\ IF reachedSuccesses(successCount + 1, r)
               THEN /\ gpc' = "sendSuccess"
                    /\ sigAt' = IF sigAt = NoTime THEN now ELSE sigAt
                    /\ wait' = 0
               ELSE /\ gpc' = "sleep" /\ wait' = sleepTime(r)
                    /\ UNCHANGED sigAt
       ELSE /\ successCount' = afterFailure(successCount)
            /\ gpc' = "sleep" /\ wait' = sleepTime(r)
            /\ UNCHANGED sigAt
    /\ UNCHANGED <<r, now, attempt, ctxDone, result, obsAt, retAt>>

\* action(attempt, successCount) returns b.
ActionReturns ==
    /\ \E b \in BOOLEAN : LoopAfterAction(b)
    /\ UNCHANGED notDoVars

\* time.Sleep(r.Interval) returns.
SleepReturns ==
    /\ gpc = "sleep" /\ wait = 0
    /\ gpc' = "select"
    /\ UNCHANGED <<r, now, wait, attempt, successCount, ctxDone, result, history,
                   sigAt, obsAt, retAt, endAt, notDoVars>>

timerNever(t, w) == FALSE

timerFiredEarly(t, w) == t >= w.Timeout - 1

\* The channel of time.After(r.Timeout) is ready t ticks after the call.
timerFired(t, w) == t >= w.Timeout

selectTimeoutAsFailure == "Failure"

\* What Do returns when the time.After case of its select is taken.
selectTimeout == "TimeoutExceeded"

\* Do's select takes a case that is ready: a send the goroutine is blocked
\* on, or the timer once Timeout has elapsed (any of them when several are).
DoReceivesSuccess ==
    /\ result = "none" /\ gpc = "sendSuccess"
    /\ result' = "Success" /\ gpc' = "exited" /\ retAt' = now
    /\ UNCHANGED <<r, now, wait, attempt, successCount, ctxDone, history,
                   sigAt, obsAt, endAt, notDoVars>>

DoReceivesFailure ==
    /\ result = "none" /\ gpc = "sendFailure"
    /\ result' = "Failure" /\ gpc' = "exited" /\ retAt' = now
    /\ UNCHANGED <<r, now, wait, attempt, successCount, ctxDone, history,
                   sigAt, obsAt, endAt, notDoVars>>

DoTimesOut ==
    /\ result = "none" /\ timerFired(now, r)
    /\ result' = selectTimeout /\ retAt' = now
    /\ UNCHANGED <<r, now, gpc, wait, attempt, successCount, ctxDone, history,
                   sigAt, obsAt, endAt, notDoVars>>

\* The caller's context is cancelled.
Cancel ==
    /\ gpc # "idle" /\ ~ctxDone
    /\ ctxDone' = TRUE
    /\ UNCHANGED <<r, now, gpc, wait, attempt, successCount, result, history,
                   sigAt, obsAt, retAt, endAt, notDoVars>>

\* A step that takes no time is ready.
Urgent ==
    \/ gpc = "select"
    \/ gpc \in {"action", "sleep"} /\ wait = 0
    \/ result = "none" /\ (gpc \in {"sendSuccess", "sendFailure"} \/ timerFired(now, r))

\* The clock advances when nothing is ready to run.
Tick ==
    /\ gpc # "idle" /\ ~Urgent /\ now < MaxTime
    /\ now' = now + 1
    /\ wait' = IF gpc \in {"action", "sleep"} /\ wait > 0 THEN wait - 1 ELSE wait
    /\ UNCHANGED <<r, gpc, attempt, successCount, ctxDone, result, history,
                   sigAt, obsAt, retAt, endAt, notDoVars>>

NextDo ==
    \/ LoopSelect
    \/ ActionReturns
    \/ SleepReturns
    \/ DoReceivesSuccess
    \/ DoReceivesFailure
    \/ DoTimesOut
    \/ Cancel
    \/ Tick

SpecDo == InitDo /\ [][NextDo]_vars

\* The goroutines that can run do run, and time passes.
FairDo ==
    /\ SpecDo
    /\ WF_vars(LoopSelect) /\ WF_vars(ActionReturns) /\ WF_vars(SleepReturns)
    /\ WF_vars(DoReceivesSuccess) /\ WF_vars(DoReceivesFailure)
    /\ WF_vars(DoTimesOut) /\ WF_vars(Tick)

\* ---- claims about RetryWindow.Do ----------------------------------------
Returned == result # "none"
AllReturned(b) == \A i \in 1..Len(history) : history[i].ret = b
NeverHung == ~(gpc = "action" /\ wait = Hang)
\* No success is due at this very tick (it would race the timer).
NoneDue == ~(gpc = "action" /\ wait = 0) /\ gpc # "sendSuccess"

\* C1 as stated: with ConsecutiveSuccesses = n >= 1, an action that returns
\* true on every call, no cancellation and n*Interval < Timeout, Do returns
\* Success and the action has been invoked exactly n times. (Read in the
\* claim's favour: an action that never returns, or one whose success is
\* due at the very tick of the return, is left out.)
C1_AlwaysTrueSucceeds ==
    (/\ Returned /\ r.ConsecutiveSuccesses >= 1
     /\ AllReturned(TRUE) /\ NeverHung /\ NoneDue /\ ~ctxDone
     /\ r.ConsecutiveSuccesses * r.Interval < r.Timeout)
    => (result = "Success" /\ attempt = r.ConsecutiveSuccesses)

\* C1 amended: with ConsecutiveSuccesses = n >= 1, an action that returns
\* true on every call and no cancellation, when the n invocations and the
\* n-1 sleeps between them end before Timeout has elapsed (the n-th true
\* comes back at a tick sigAt < Timeout), Do returns Success and the action
\* has been invoked exactly n times.
C1_AlwaysTrueSucceedsInTime ==
    (/\ Returned /\ r.ConsecutiveSuccesses >= 1
     /\ AllReturned(TRUE) /\ ~ctxDone
     /\ sigAt # NoTime /\ sigAt < r.Timeout)
    => (/\ result = "Success"
        /\ attempt = r.ConsecutiveSuccesses
        /\ Len(history) = r.ConsecutiveSuccesses)

\* Three trues in a row gave Success with exactly three invocations.
C1_Witness ==
    /\ result = "Success" /\ r.ConsecutiveSuccesses = 3 /\ attempt = 3
    /\ AllReturned(TRUE) /\ ~ctxDone /\ r.Interval > 0

\* C2: Do returns Success only when the n most recent invocations all
\* returned true (n = ConsecutiveSuccesses >= 1): a false resets the count,
\* so n further trues are needed after it.
C2_SuccessNeedsNConsecutive ==
    (result = "Success" /\ r.ConsecutiveSuccesses >= 1) =>
        /\ Len(history) >= r.ConsecutiveSuccesses
        /\ \A i \in (Len(history) - r.ConsecutiveSuccesses + 1)..Len(history) :
              history[i].ret

\* n-1 trues, a false, then n trues: Success only after the n-th of them.
C2_Witness ==
    /\ result = "Success" /\ r.ConsecutiveSuccesses >= 2
    /\ Len(history) = 2 * r.ConsecutiveSuccesses
    /\ ~history[r.ConsecutiveSuccesses].ret
    /\ \A i \in 1..(r.ConsecutiveSuccesses - 1) : history[i].ret

\* C3: when the action returns false on every call and the context is not
\* cancelled, Do returns TimeoutExceeded, never Success.
C3_AlwaysFalseTimesOut ==
    (Returned /\ AllReturned(FALSE) /\ ~ctxDone) => result = "TimeoutExceeded"

\* Several falses, then the deadline.
C3_Witness ==
    /\ result = "TimeoutExceeded" /\ Len(history) >= 3
    /\ AllReturned(FALSE) /\ ~ctxDone

\* C4: when Timeout elapses before the loop has signalled an end (no send
\* was reached by the tick Timeout), Do returns TimeoutExceeded, and it does
\* so at the tick Timeout counted from the call.
C4_DeadlineBeforeSignal ==
    (Returned /\ (sigAt = NoTime \/ sigAt > r.Timeout)) =>
        (result = "TimeoutExceeded" /\ retAt = r.Timeout)

\* Do timed out, and the abandoned loop reached its success only later.
C4_Witness ==
    /\ result = "TimeoutExceeded" /\ gpc = "sendSuccess" /\ sigAt > r.Timeout

\* C5: Do always returns, whatever the action does (an attempt that never
\* returns included): it waits no longer than the tick Timeout, and what it
\* returned is one result that never changes.
C5_DoTerminates ==
    /\ <>Returned
    /\ [](~Returned => now <= r.Timeout)
    /\ [][Returned => result' = result]_vars

\* Do returned TimeoutExceeded while an attempt that never returns runs.
C5_Witness ==
    /\ result = "TimeoutExceeded" /\ gpc = "action" /\ wait = Hang

\* C6: when the loop sees the context cancelled while Do still waits, the
\* result is never Success, and it is Failure whenever that happens before
\* the deadline (the tick Timeout), where TimeoutExceeded is reached.
C6_CancelGivesFailure ==
    (Returned /\ obsAt # NoTime) =>
        /\ result # "Success"
        /\ obsAt < r.Timeout => result = "Failure"

\* Cancelled after some attempts, before the deadline: Failure.
C6_Witness ==
    /\ result = "Failure" /\ Len(history) >= 2 /\ obsAt > 0 /\ obsAt < r.Timeout

\* =========================================================================
\* HealthCheck (pkg/healthcheck/http.go): the attempt closure given to Do
\* =========================================================================
\* Status-code patterns that pass HealthCheck's one check of the pattern
\* (checkStatusCode(data.StatusCode, 0, diag) adds no error).
HttpPatterns ==
    {<<"1">>, <<"0", "-", "1">>, <<"1", ",", "1", "0">>, <<"1", "0", "-", "1", "1">>}
HttpStatuses == {0, 1, 10, 11}

\* Response bodies: nothing, text that is not JSON, and JSON objects whose
\* SomeField is "a", "ab" or "b", or that have no SomeField.
Bodies == {"", "notjson", "{SomeField:a}", "{SomeField:ab}", "{SomeField:b}", "{Other:a}"}

\* (JSONPath, JSONValue) pairs that pass HealthCheck's pairing check: both
\* empty or both set. "{.SomeField" is an expression that does not parse.
JsonConfigs ==
    {<<"", "">>, <<"{.SomeField}", "a">>, <<"{.SomeField}", "b">>, <<"{.SomeField", "a">>}

ConnError == [kind |-> "connerror", status |-> 0, body |-> "", readErr |-> FALSE]
Responses ==
    {ConnError} \cup
    [kind : {"response"}, status : HttpStatuses, body : Bodies, readErr : BOOLEAN]

\* json.Unmarshal into an interface{}: the value of SomeField in an object
\* that has one; "nil" for what is left when the text is not JSON (the error
\* is dropped) and "nofield" for an object without the field.
Unmarshal(body) ==
    CASE body = "{SomeField:a}"  -> "a"
      [] body = "{SomeField:ab}" -> "ab"
      [] body = "{SomeField:b}"  -> "b"
      [] body = "{Other:a}"      -> "nofield"
      [] OTHER                   -> "nil"

\* jsonpath Parse: the empty template parses (to no nodes at all).
JsonPathParses(path) == path \in {"", "{.SomeField}"}

\* jsonpath Execute into the buffer: the empty template prints nothing; a
\* field that is not there is an error.
JsonPathExecute(path, doc) ==
    IF path = "" THEN [err |-> FALSE, out |-> ""]
    ELSE IF doc \in {"nil", "nofield"} THEN [err |-> TRUE, out |-> ""]
    ELSE [err |-> FALSE, out |-> doc]

\* regexp MatchString, unanchored: the empty expression matches everything.
MatchString(re, str) ==
    \/ re = ""
    \/ re = "a" /\ str \in {"a", "ab"}
    \/ re = "b" /\ str \in {"b", "ab"}

\* Lines 160-177: the JSONPath check of the closure, on data.ResultBody.
checkJSONPath(d) ==
    IF ~JsonPathParses(d.JSONPath) THEN FALSE
    ELSE LET res == JsonPathExecute(d.JSONPath, Unmarshal(d.ResultBody))
         IN  IF res.err THEN FALSE ELSE MatchString(d.JSONValue, res.out)

\* The state when HealthCheck has checked its arguments and hands the
\* closure to window.Do.
InitHttp ==
    /\ \E p \in HttpPatterns, jc \in JsonConfigs :
         data = [StatusCode |-> p, JSONPath |-> jc[1], JSONValue |-> jc[2],
                 ResultBody |-> ""]
    /\ diag = [errors |-> 0, warnings |-> 0]
    /\ httpAttempts = 0 /\ lastResp = NoResp /\ lastRet = FALSE /\ bodyAt = 0
    /\ IdleStatusCode /\ IdleDo /\ IdleProbe /\ IdleLegacy

\* The body of the closure; resp is what client.Do returns.
HttpClosure(resp) ==
    /\ lastResp' = resp
    /\ httpAttempts' = httpAttempts + 1
    /\ IF resp.kind = "connerror"
       THEN /\ lastRet' = FALSE
            /\ UNCHANGED <<data, diag, bodyAt>>
       ELSE LET sc      == checkStatusCode(data.StatusCode, resp.status)
                scErrs  == (IF sc.diag THEN 1 ELSE 0) + (IF sc.err # "nil" THEN 1 ELSE 0)
                body    == IF sc.ok
                           THEN (IF resp.readErr THEN "" ELSE resp.body)
                           ELSE data.ResultBody
                newData == [data EXCEPT !.ResultBody = body]
            IN  /\ diag' = [diag EXCEPT !.errors = @ + scErrs]
                /\ data' = newData
                /\ bodyAt' = IF sc.ok THEN httpAttempts + 1 ELSE bodyAt
                /\ lastRet' = checkJSONPath(newData)

\* One invocation of the closure.
HttpAttempt ==
    /\ httpAttempts < MaxHttpAttempts
    /\ \E resp \in Responses : HttpClosure(resp)
    /\ UNCHANGED notHttpVars

NextHttp == HttpAttempt

SpecHttp == InitHttp /\ [][NextHttp]_vars

\* ---- claims about the attempt closure -----------------------------------
StatusMatched == lastResp.kind = "response" /\
                 PatternAccepts(data.StatusCode, lastResp.status)

\* The JSONPath result over the body of the response of this attempt.
BodyMatched ==
    /\ lastResp.kind = "response" /\ ~lastResp.readErr
    /\ JsonPathParses(data.JSONPath)
    /\ LET res == JsonPathExecute(data.JSONPath, Unmarshal(lastResp.body))
       IN  ~res.err /\ MatchString(data.JSONValue, res.out)

\* C7: with JSONPath and JSONValue set, an attempt returns true only if the
\* status code of its response matches the pattern and the JSONPath result
\* over the body of that same response matches the value regex.
C7_TrueOnlyIfStatusAndJson ==
    (httpAttempts > 0 /\ data.JSONPath # "" /\ data.JSONValue # "" /\ lastRet)
        => (StatusMatched /\ BodyMatched)

\* C8: with JSONPath and JSONValue both empty, an attempt returns true
\* exactly when the status code of the response matches the pattern.
C8_NoJsonPathStatusOnly ==
    (httpAttempts > 0 /\ data.JSONPath = "" /\ data.JSONValue = "")
        => (lastRet <=> StatusMatched)

\* =========================================================================
\* The probe functions and the resource that calls them: HealthCheck
\* (pkg/healthcheck), TCPEcho and RunCommand (pkg/provider), each handing
\* its closure to RetryWindow.Do, and the resource's Create
\* =========================================================================
Probes == {"http", "tcp", "command"}

\* The windows of a probe session.
ProbeWindows ==
    {w \in RetryWindows : /\ w.Timeout = MaxTimeout
                          /\ w.Interval = 1
                          /\ w.ConsecutiveSuccesses \in 1..2}

\* Status-code patterns given to HealthCheck, well-formed or not.
HcPatterns ==
    {<<"1">>, <<"x">>, <<"0", ",", "x">>, <<"1", "-", "0">>,
     <<"0", "-", "1", "-", "1">>}

\* (JSONPath, JSONValue) as configured, paired or not.
HcJsonConfigs ==
    {<<"", "">>, <<"{.SomeField}", "a">>, <<"{.SomeField}", "">>, <<"", "a">>}

HcResponses ==
    {ConnError} \cup
    {resp \in Responses : /\ resp.status \in {0, 1}
                          /\ resp.body \in {"{SomeField:a}", "{SomeField:b}"}
                          /\ ~resp.readErr}

\* The TLS options: none, or a CA bundle together with insecure_tls.
HttpOpts ==
    {o \in [IgnoreFailure : BOOLEAN, URLOk : BOOLEAN, CABundle : {"", "pem"},
            InsecureTLS : BOOLEAN, diagNil : BOOLEAN, ExpectWriteFailure : {FALSE},
            ExpectedMessage : {""}, PersistentResponseRegex : {""},
            CreateFile : {FALSE}, pre : {"none"}] :
        o.InsecureTLS <=> o.CABundle # ""}

\* "(" is an expression that does not compile.
TcpOpts ==
    [IgnoreFailure : BOOLEAN, URLOk : {TRUE}, CABundle : {""}, InsecureTLS : {FALSE},
     diagNil : {FALSE}, ExpectWriteFailure : BOOLEAN, ExpectedMessage : {"", "m"},
     PersistentResponseRegex : {"", "[AB]", "("}, CreateFile : {FALSE},
     pre : {"none"}]

\* CreateFile: a create_file block is configured. pre: what fails before the
\* loop: in EnsureFile os.MkdirAll, os.CreateTemp or file.WriteString, in
\* RunCommand the conversion of env or filepath.Abs.
FilePreSteps == {"mkdir", "create", "write", "abs"}
CmdOpts ==
    {o \in [IgnoreFailure : BOOLEAN, URLOk : {TRUE}, CABundle : {""},
            InsecureTLS : {FALSE}, diagNil : {FALSE}, ExpectWriteFailure : {FALSE},
            ExpectedMessage : {""}, PersistentResponseRegex : {""},
            CreateFile : BOOLEAN, pre : {"none", "env"} \cup FilePreSteps] :
        o.pre \in FilePreSteps => o.CreateFile}

\* The probe function has just been called: by the resource's Create, or
\* (HealthCheck with a nil diagnostics pointer) directly as TestHealthCheck
\* calls it; LocalCommandResource.Create is about to call EnsureFile first.
\* passed holds what the record held before.
InitProbe ==
    /\ probe \in Probes
    /\ ppc = IF probe = "command" THEN "ensure" ELSE "called"
    /\ opts \in (CASE probe = "http" -> HttpOpts
                   [] probe = "tcp" -> TcpOpts
                   [] OTHER -> CmdOpts)
    /\ passed \in BOOLEAN
    /\ perr = "none"
    /\ host = IF opts.diagNil THEN "direct" ELSE "creating"
    /\ tcpRef = "" /\ tcpRefAt = 0 /\ tcpLast = NoAttempt /\ tcpSeen = <<>>
    /\ conns = 0 /\ dialed = "no"
    /\ cmdOut \in (IF probe = "command" THEN {"null", "earlier"} ELSE {"null"})
    /\ cmdOutAt = 0 /\ files = 0 /\ aborted = 0
    /\ \E p \in HcPatterns, jc \in HcJsonConfigs :
         data = IF probe = "http"
                THEN [StatusCode |-> p, JSONPath |-> jc[1], JSONValue |-> jc[2],
                      ResultBody |-> ""]
                ELSE [StatusCode |-> <<>>, JSONPath |-> "", JSONValue |-> "",
                      ResultBody |-> ""]
    /\ diag = [errors |-> 0, warnings |-> 0]
    /\ httpAttempts = 0 /\ lastResp = NoResp /\ lastRet = FALSE /\ bodyAt = 0
    /\ r \in ProbeWindows
    /\ now = 0 /\ gpc = "idle" /\ wait = 0 /\ attempt = 0 /\ successCount = 0
    /\ ctxDone = FALSE /\ result = "none" /\ history = <<>>
    /\ sigAt = NoTime /\ obsAt = NoTime /\ retAt = NoTime /\ endAt = NoTime
    /\ IdleStatusCode /\ IdleLegacy

\* diag.AddError and diag.AddWarning; diagAddError and diagAddWarning do
\* nothing when the pointer is nil.
AddError(dg) == [dg EXCEPT !.errors = @ + 1]
AddWarning(dg) == [dg EXCEPT !.warnings = @ + 1]
diagAddError(dg, isNil) == IF isNil THEN dg ELSE AddError(dg)
diagAddWarning(dg, isNil) == IF isNil THEN dg ELSE AddWarning(dg)
HasError(dg) == dg.errors > 0

\* window.Do is called: it makes its channels, starts the loop and waits.
StartDo ==
    /\ gpc' = "select"
    /\ UNCHANGED <<r, now, wait, attempt, successCount, ctxDone, result, history,
                   sigAt, obsAt, retAt, endAt>>

tcpVars == <<tcpRef, tcpRefAt, tcpLast, tcpSeen, conns, dialed>>
cmdVars == <<cmdOut, cmdOutAt, files, aborted>>

\* ---- HealthCheck ---------------------------------------------------------
unpairedOneSided(d) == d.JSONPath # "" /\ d.JSONValue = ""

\* Exactly one of JSONPath and JSONValue is set.
unpaired(d) ==
    \/ d.JSONPath # "" /\ d.JSONValue = ""
    \/ d.JSONPath = "" /\ d.JSONValue # ""

\* HealthCheck up to its call of window.Do (lines 59-123). HasError on a nil
\* diagnostics pointer dereferences nil: the call panics. The RetryWindow is
\* built without a Context (see windowContext and LoopPanics); so that what
\* HealthCheck does around the loop can be stated, its sessions are also
\* followed as under a context that is never done.
HealthCheckStart ==
    /\ probe = "http" /\ ppc = "called"
    /\ passed' = FALSE
    /\ IF ~opts.URLOk
       THEN /\ diag' = diagAddError(diag, opts.diagNil)
            /\ perr' = "parse url"
            /\ ppc' = "returned"
            /\ UNCHANGED <<data, doVars>>
       ELSE IF unpaired(data)
       THEN /\ diag' = diagAddError(diag, opts.diagNil)
            /\ perr' = "both JSONPath and JSONValue must be specified"
            /\ ppc' = "returned"
            /\ UNCHANGED <<data, doVars>>
       ELSE LET sc == checkStatusCode(data.StatusCode, 0)
                d1 == IF sc.diag THEN diagAddError(diag, opts.diagNil) ELSE diag
            IN  IF opts.diagNil
                THEN /\ ppc' = "panicked"
                     /\ UNCHANGED <<data, diag, perr, doVars>>
                ELSE IF HasError(d1)
                THEN /\ diag' = d1
                     /\ perr' = "bad status code pattern"
                     /\ ppc' = "returned"
                     /\ UNCHANGED <<data, doVars>>
                ELSE /\ data' = [data EXCEPT !.ResultBody = ""]
                     /\ diag' = IF opts.CABundle # "" /\ opts.InsecureTLS
                                THEN diagAddError(d1, opts.diagNil) ELSE d1
                     /\ ppc' = "do"
                     /\ StartDo
                     /\ UNCHANGED perr
    /\ bodyAt' = IF ppc' = "do" THEN 0 ELSE bodyAt
    /\ UNCHANGED <<scVars, legVars, httpAttempts, lastResp, lastRet, probe, opts, host,
                   tcpVars, cmdVars>>

\* One invocation of HealthCheck's closure by the loop.
HttpAttemptReturns ==
    /\ probe = "http"
    /\ gpc = "action" /\ wait = 0
    /\ \E resp \in HcResponses : HttpClosure(resp)
    /\ LoopAfterAction(lastRet')
    /\ UNCHANGED <<scVars, legVars, probeVars>>

\* HealthCheck after window.Do has returned (lines 180-191): err still holds
\* what url.Parse returned, nil; what multierror.Append returns is dropped.
HealthCheckReturns ==
    /\ probe = "http" /\ ppc = "do" /\ result # "none"
    /\ passed' = IF result = "Success" THEN TRUE ELSE passed
    /\ diag' = IF result = "TimeoutExceeded"
               THEN LET d1 == diagAddWarning(diag, opts.diagNil)
                    IN  IF ~opts.IgnoreFailure THEN diagAddError(d1, opts.diagNil) ELSE d1
               ELSE diag
    /\ perr' = "nil"
    /\ ppc' = "returned"
    /\ UNCHANGED <<scVars, legVars, doVars, data, httpAttempts, lastResp, lastRet, bodyAt, probe,
                   opts, host, tcpVars, cmdVars>>

\* ---- TCPEcho -------------------------------------------------------------
\* Replies of the server: with or without the expected message "m", with a
\* value "A" or "B" that the regex "[AB]" extracts or with none.
Replies == {"A m", "B m", "A", "m"}

\* regexp.Compile succeeds.
Compiles(re) == re # "("

\* FindStringIndex and the slice of the reply it delimits; "nil" for no match.
FindString(re, reply) ==
    IF re = "[AB]" /\ reply \in {"A m", "A"} THEN "A"
    ELSE IF re = "[AB]" /\ reply = "B m" THEN "B"
    ELSE "nil"

\* strings.Contains(reply, msg).
Contains(reply, msg) == msg = "" \/ (msg = "m" /\ reply \in {"A m", "B m", "m"})

\* What one attempt meets: a dial error, a write error, or (with or without
\* an error of SetDeadline) a read that fails or gives a reply.
TcpOutcomes ==
    [kind : {"dialErr", "writeErr"}, deadlineErr : {FALSE}, reply : {""}] \cup
    [kind : {"readErr"}, deadlineErr : BOOLEAN, reply : {""}] \cup
    [kind : {"read"}, deadlineErr : {FALSE}, reply : Replies] \cup
    [kind : {"read"}, deadlineErr : {TRUE}, reply : {"A m"}]

\* TCPEcho up to its call of window.Do (lines 190-219).
TCPEchoStart ==
    /\ probe = "tcp" /\ ppc = "called"
    /\ IF ~opts.ExpectWriteFailure /\ opts.ExpectedMessage = ""
       THEN /\ ppc' = "returned"
            /\ UNCHANGED <<passed, diag, doVars>>
       ELSE /\ passed' = FALSE
            /\ IF opts.PersistentResponseRegex # "" /\ ~Compiles(opts.PersistentResponseRegex)
               THEN /\ diag' = AddError(diag)
                    /\ ppc' = "returned"
                    /\ UNCHANGED doVars
               ELSE /\ ppc' = "do"
                    /\ StartDo
                    /\ UNCHANGED diag
    /\ UNCHANGED <<scVars, legVars, data, httpAttempts, lastResp, lastRet, bodyAt, probe, opts, perr,
                   host, tcpVars, cmdVars>>

onReadErrorFail(expectFailure) == FALSE

\* What an attempt returns when conn.Read gave an error.
onReadError(expectFailure) == expectFailure

firstValueAlways(storedAttempt) == TRUE

\* No value has been stored by an earlier attempt.
firstValue(storedAttempt) == storedAttempt = 0

\* The body of TCPEcho's closure on outcome o, as attempt number att: what
\* it returns, the stored value and its attempt after it, and the warnings
\* it adds.
TcpClosure(o, att) ==
    LET keep(b, w) == [ret |-> b, ref |-> tcpRef, refAt |-> tcpRefAt, warn |-> w]
        re == opts.PersistentResponseRegex
        checkExpected ==
            IF ~Contains(o.reply, opts.ExpectedMessage)
            THEN keep(FALSE, 1) ELSE keep(TRUE, 0)
    IN  IF o.kind \in {"dialErr", "writeErr"} THEN keep(FALSE, 0)
        ELSE IF o.deadlineErr /\ ~opts.ExpectWriteFailure THEN keep(FALSE, 0)
        ELSE IF o.kind = "readErr" THEN keep(onReadError(opts.ExpectWriteFailure), 0)
        ELSE IF opts.ExpectWriteFailure THEN keep(FALSE, 0)
        ELSE IF re # ""
        THEN LET v == FindString(re, o.reply)
             IN  IF v = "nil" THEN keep(FALSE, 1)
                 ELSE IF firstValue(tcpRefAt)
                 THEN [ret |-> TRUE, ref |-> v, refAt |-> att, warn |-> 0]
                 ELSE IF tcpRef # v THEN keep(FALSE, 1)
                 ELSE checkExpected
        ELSE checkExpected

\* The value the regex extracts from the reply this attempt has read, "nil"
\* when it read none or the regex is not applied.
Extracted(o) ==
    IF /\ ~opts.ExpectWriteFailure /\ opts.PersistentResponseRegex # ""
       /\ o.kind = "read" /\ ~o.deadlineErr
    THEN FindString(opts.PersistentResponseRegex, o.reply)
    ELSE "nil"

\* The closure begins: d.Dial opens a connection or fails (lines 225-231).
TcpDial ==
    /\ probe = "tcp"
    /\ gpc = "action" /\ dialed = "no"
    /\ \E ok \in BOOLEAN :
         /\ dialed' = IF ok THEN "ok" ELSE "err"
         /\ conns' = IF ok THEN conns + 1 ELSE conns
    /\ UNCHANGED <<scVars, legVars, doVars, httpVars, probe, ppc, opts, passed, perr, host,
                   tcpRef, tcpRefAt, tcpLast, tcpSeen, cmdVars>>

deferredCloseOnSuccess(n, ret) == IF ret THEN n - 1 ELSE n

\* defer conn.Close(), registered once the dial has succeeded: it runs when
\* the closure returns, whatever it returns.
deferredClose(n, ret) == n - 1

\* One invocation of TCPEcho's closure by the loop returns.
TcpAttemptReturns ==
    /\ probe = "tcp"
    /\ gpc = "action" /\ wait = 0 /\ dialed # "no"
    /\ \E o \in TcpOutcomes :
         LET c == TcpClosure(o, attempt)
             v == Extracted(o)
         IN  /\ (o.kind = "dialErr") <=> (dialed = "err")
             /\ conns' = IF dialed = "ok" THEN deferredClose(conns, c.ret) ELSE conns
             /\ dialed' = "no"
             /\ tcpRef' = c.ref
             /\ tcpRefAt' = c.refAt
             /\ tcpLast' = [kind |-> o.kind, deadlineErr |-> o.deadlineErr,
                            reply |-> o.reply, ret |-> c.ret]
             /\ tcpSeen' = IF v = "nil" \/ \E i \in 1..Len(tcpSeen) : tcpSeen[i] = v
                           THEN tcpSeen ELSE Append(tcpSeen, v)
             /\ diag' = [diag EXCEPT !.warnings = @ + c.warn]
             /\ LoopAfterAction(c.ret)
    /\ UNCHANGED <<scVars, legVars, data, httpAttempts, lastResp, lastRet, bodyAt, probe, ppc, opts,
                   passed, perr, host, cmdVars>>

\* TCPEcho after window.Do has returned (lines 297-307).
TCPEchoReturns ==
    /\ probe = "tcp" /\ ppc = "do" /\ result # "none"
    /\ passed' = IF result = "Success" THEN TRUE ELSE passed
    /\ diag' = IF result = "TimeoutExceeded"
               THEN (IF ~opts.IgnoreFailure THEN AddError(AddWarning(diag))
                     ELSE AddWarning(diag))
               ELSE diag
    /\ ppc' = "returned"
    /\ UNCHANGED <<scVars, legVars, doVars, data, httpAttempts, lastResp, lastRet, bodyAt, probe,
                   opts, perr, host, tcpVars, cmdVars>>

\* ---- RunCommand ----------------------------------------------------------
\* How one run of the command ends: it does not start, it exits non-zero,
\* it is killed when CommandTimeout expires, or it exits 0.
CmdOutcomes == {"startErr", "exitNonZero", "killed", "exit0"}

ensureFailedIgnored(dg) == FALSE

\* Create's test after EnsureFile: it returns when an error was recorded.
ensureFailed(dg) == HasError(dg)

\* EnsureFile as Create calls it (lines 186-189 and 338-376): without a
\* create_file block it does nothing; a failure of os.MkdirAll, of
\* os.CreateTemp or of file.WriteString records an error, the last of them
\* after the file was created; Create then returns without RunCommand.
EnsureFile ==
    /\ probe = "command" /\ ppc = "ensure"
    /\ LET failed == opts.CreateFile /\ opts.pre \in {"mkdir", "create", "write"}
           d1 == IF failed THEN AddError(diag) ELSE diag
       IN  /\ diag' = d1
           /\ files' = IF opts.CreateFile /\ opts.pre \notin {"mkdir", "create"}
                       THEN files + 1 ELSE files
           /\ IF ensureFailed(d1)
              THEN ppc' = "notcalled" /\ host' = "failed"
              ELSE ppc' = "called" /\ UNCHANGED host
    /\ UNCHANGED <<scVars, legVars, doVars, data, httpAttempts, lastResp, lastRet, bodyAt, probe, opts,
                   passed, perr, tcpVars, cmdOut, cmdOutAt, aborted>>

\* RunCommand up to its call of window.Do (lines 199-236).
RunCommandStart ==
    /\ probe = "command" /\ ppc = "called"
    /\ passed' = FALSE
    /\ cmdOut' = "null" /\ cmdOutAt' = 0
    /\ IF opts.pre \in {"env", "abs"}
       THEN /\ diag' = AddError(diag)
            /\ ppc' = "returned"
            /\ UNCHANGED doVars
       ELSE /\ ppc' = "do"
            /\ StartDo
            /\ UNCHANGED diag
    /\ UNCHANGED <<scVars, legVars, data, httpAttempts, lastResp, lastRet, bodyAt, probe, opts, perr,
                   host, tcpVars, files, aborted>>

\* One invocation of RunCommand's closure by the loop: the output of a
\* command that ran is stored, and only exit 0 is a success. A command that
\* the cancellation killed comes back from cmd.Wait with an error.
CmdAttemptReturns ==
    /\ probe = "command"
    /\ gpc = "action" /\ wait = 0
    /\ \E o \in CmdOutcomes :
         /\ aborted = attempt => o = "killed"
         /\ cmdOut' = IF o = "startErr" THEN cmdOut ELSE o
         /\ cmdOutAt' = IF o = "startErr" THEN cmdOutAt ELSE attempt
         /\ LoopAfterAction(o = "exit0")
    /\ UNCHANGED <<scVars, legVars, httpVars, probe, ppc, opts, passed, perr, host, tcpVars,
                   files, aborted>>

\* RunCommand after window.Do has returned (lines 273-283).
RunCommandReturns ==
    /\ probe = "command" /\ ppc = "do" /\ result # "none"
    /\ passed' = IF result = "Success" THEN TRUE ELSE passed
    /\ diag' = IF result = "TimeoutExceeded"
               THEN (IF ~opts.IgnoreFailure THEN AddError(AddWarning(diag))
                     ELSE AddWarning(diag))
               ELSE diag
    /\ ppc' = "returned"
    /\ UNCHANGED <<scVars, legVars, doVars, data, httpAttempts, lastResp, lastRet, bodyAt, probe,
                   opts, perr, host, tcpVars, cmdVars>>

\* ---- the resource --------------------------------------------------------
\* HttpHealthResource.HealthCheck around healthcheck.HealthCheck: an error
\* that came back becomes an error diagnostic.
wrapHealthCheck(dg, e) == IF e # "nil" THEN AddError(dg) ELSE dg

\* Create once the probe function has returned: the state is set only when
\* the diagnostics hold no error.
Create ==
    /\ ppc = "returned" /\ host = "creating"
    /\ LET d1 == IF probe = "http" THEN wrapHealthCheck(diag, perr) ELSE diag
       IN  /\ diag' = d1
           /\ host' = IF HasError(d1) THEN "failed"
                      ELSE IF passed THEN "persistedTrue" ELSE "persistedFalse"
    /\ UNCHANGED <<scVars, legVars, doVars, data, httpAttempts, lastResp, lastRet, bodyAt, probe,
                   ppc, opts, passed, perr, tcpVars, cmdVars>>

\* The Context field of the RetryWindow the probe function builds: TCPEcho
\* and RunCommand set it to their ctx, HealthCheck leaves it out.
windowContext(p) == IF p = "http" THEN "nil" ELSE "ctx"

\* The top of the loop when r.Context is nil: evaluating r.Context.Done()
\* for the select calls a method of a nil interface; the goroutine panics
\* and the process ends with it.
LoopPanics ==
    /\ windowContext(probe) = "nil"
    /\ gpc = "select" /\ result = "none"
    /\ gpc' = "panicked"
    /\ UNCHANGED <<r, now, wait, attempt, successCount, ctxDone, result, history,
                   sigAt, obsAt, retAt, endAt, notDoVars>>

\* Do's select takes the timer, in a process that is still alive.
ProbeDoTimesOut == gpc # "panicked" /\ DoTimesOut

\* How long an attempt of a probe runs: each is cut short by a timeout of
\* its own (RequestTimeout, SingleAttemptTimeout, CommandTimeout).
ProbeDurations == {0, 1}

ProbeLoopSelect == LoopSelect /\ (gpc' = "action" => wait' \in ProbeDurations)

\* The clock of a session is followed until one tick after the deadline;
\* an attempt that has begun makes its first call before the clock moves.
ProbeTick ==
    /\ Tick
    /\ now <= r.Timeout
    /\ gpc # "panicked"
    /\ ~(probe = "tcp" /\ gpc = "action" /\ dialed = "no")

killOnCancelNever(left) == left

\* exec.CommandContext under a context derived from ctx: the running
\* command is killed when ctx is done, cmd.Wait returns at once.
killOnCancel(left) == 0

\* The context given to TCPEcho and RunCommand is cancelled. The dial, the
\* write and the read of TCPEcho do not take the context.
ProbeCancel ==
    /\ probe \in {"tcp", "command"}
    /\ gpc # "idle" /\ ~ctxDone
    /\ ctxDone' = TRUE
    /\ IF probe = "command" /\ gpc = "action" /\ wait > 0
       THEN /\ wait' = killOnCancel(wait)
            /\ aborted' = IF wait' < wait THEN attempt ELSE aborted
       ELSE UNCHANGED <<wait, aborted>>
    /\ UNCHANGED <<scVars, legVars, r, now, gpc, attempt, successCount, result, history,
                   sigAt, obsAt, retAt, endAt, httpVars, probe, ppc, opts, passed, perr,
                   host, tcpVars, cmdOut, cmdOutAt, files>>

NextProbe ==
    \/ HealthCheckStart
    \/ HttpAttemptReturns
    \/ HealthCheckReturns
    \/ TCPEchoStart
    \/ TcpDial
    \/ TcpAttemptReturns
    \/ TCPEchoReturns
    \/ EnsureFile
    \/ RunCommandStart
    \/ CmdAttemptReturns
    \/ RunCommandReturns
    \/ Create
    \/ ProbeCancel
    \/ ProbeLoopSelect
    \/ LoopPanics
    \/ SleepReturns
    \/ DoReceivesSuccess
    \/ DoReceivesFailure
    \/ ProbeDoTimesOut
    \/ ProbeTick

SpecProbe == InitProbe /\ [][NextProbe]_vars

\* ---- claims about the probe sessions ------------------------------------
ProbeReturned == ppc = "returned"
TlsConflict == opts.CABundle # "" /\ opts.InsecureTLS
\* Do was never called: no loop, no attempt.
NoAttemptMade == gpc = "idle" /\ attempt = 0 /\ httpAttempts = 0
CreateDone == host \in {"failed", "persistedTrue", "persistedFalse"}

\* C11: for every status-code pattern with a malformed segment HealthCheck
\* reports the parse error as fatal before any attempt: it returns with an
\* error diagnostic and an error, and the closure is never invoked. (URL and
\* JSONPath pairing accepted, diagnostics pointer not nil.)
C11_MalformedPatternFatal ==
    (/\ probe = "http" /\ ppc # "called"
     /\ ~WellFormedPattern(data.StatusCode)
     /\ opts.URLOk /\ ~opts.diagNil
     /\ (data.JSONPath = "") = (data.JSONValue = ""))
    => (ProbeReturned /\ HasError(diag) /\ perr # "nil" /\ NoAttemptMade)

\* C12: with both a CA bundle and insecure_tls configured (everything else
\* accepted), HealthCheck records an error and returns without any attempt
\* being invoked.
C12_TlsConflictFatal ==
    (/\ probe = "http" /\ ppc # "called"
     /\ TlsConflict
     /\ WellFormedPattern(data.StatusCode)
     /\ opts.URLOk /\ ~opts.diagNil
     /\ (data.JSONPath = "") = (data.JSONValue = ""))
    => (ProbeReturned /\ HasError(diag) /\ NoAttemptMade)

\* C13: when exactly one of JSONPath and JSONValue is configured, HealthCheck
\* returns a non-nil error with passed = false, and the closure is never
\* invoked.
C13_UnpairedJsonFatal ==
    (/\ probe = "http" /\ ppc # "called"
     /\ (data.JSONPath = "") # (data.JSONValue = ""))
    => (ProbeReturned /\ perr \notin {"none", "nil"} /\ ~passed /\ NoAttemptMade)

\* Only JSONValue is set, the URL parses, the diagnostics pointer is nil:
\* HealthCheck has returned the pairing error.
C13_Witness ==
    /\ probe = "http" /\ ProbeReturned
    /\ data.JSONPath = "" /\ data.JSONValue # "" /\ opts.URLOk /\ opts.diagNil
    /\ perr = "both JSONPath and JSONValue must be specified"
    /\ ~passed /\ NoAttemptMade

\* C14: a response whose status code does not match a well-formed pattern
\* adds no error diagnostic, so a session that reaches Success on a response
\* whose status matches (TLS options not in conflict) ends with passed = true
\* and no error diagnostic.
C14_StatusMismatchTransient ==
    (/\ probe = "http" /\ ProbeReturned /\ result = "Success"
     /\ WellFormedPattern(data.StatusCode) /\ ~TlsConflict /\ StatusMatched)
    => (passed /\ ~HasError(diag))

\* C15: when the session ends with TimeoutExceeded and IgnoreFailure is
\* false, HealthCheck returns a non-nil error.
C15_TimeoutReturnsError ==
    (/\ probe = "http" /\ ProbeReturned /\ result = "TimeoutExceeded"
     /\ ~opts.IgnoreFailure)
    => perr # "nil"

\* C16: for each probe, when the session ended with TimeoutExceeded (pattern
\* well-formed, TLS options not in conflict) a warning is recorded; with
\* create_anyway_on_check_failure no error is recorded and Create persists
\* the state with passed = false; without it an error is recorded and the
\* state is not persisted.
C16_TimeoutOutcome ==
    (/\ CreateDone /\ result = "TimeoutExceeded"
     /\ WellFormedPattern(data.StatusCode) /\ ~TlsConflict)
    => /\ diag.warnings >= 1
       /\ IF opts.IgnoreFailure
          THEN ~HasError(diag) /\ host = "persistedFalse"
          ELSE HasError(diag) /\ host = "failed"

\* C17: for each probe, when the probe function has returned, passed is
\* true if and only if Do returned Success in this session (whatever passed
\* held when the function was called).
C17_PassedIffSuccess ==
    ProbeReturned => (passed <=> result = "Success")

C19_ReferenceRecordedOnce ==
    /\ []((probe = "tcp" /\ ~opts.ExpectWriteFailure
           /\ opts.PersistentResponseRegex # "") =>
            /\ tcpRefAt # 0 <=> tcpSeen # <<>>
            /\ tcpSeen # <<>> => tcpRef = tcpSeen[1]
            /\ (Extracted(tcpLast) # "nil" /\ Extracted(tcpLast) # tcpRef)
                  => ~tcpLast.ret)
    /\ [][tcpRefAt # 0 => (tcpRef' = tcpRef /\ tcpRefAt' = tcpRefAt)]_vars

\* A later attempt extracted another value and failed, the success count is
\* back at 0, and the stored value is still the first one.
C19_Witness ==
    /\ probe = "tcp" /\ Len(tcpSeen) = 2 /\ tcpRef = tcpSeen[1]
    /\ attempt > tcpRefAt /\ tcpRefAt >= 2
    /\ Extracted(tcpLast) = tcpSeen[2] /\ ~tcpLast.ret /\ successCount = 0

\* C20: TCPEcho with persistent_response_regex: when the regex has extracted
\* two different values on two attempts of one session, the session does
\* not end with Success and passed = true.
C20_DifferentValuesFail ==
    (probe = "tcp" /\ ProbeReturned /\ Len(tcpSeen) >= 2)
    => (result # "Success" /\ ~passed)

\* C21: TCPEcho in normal mode: every attempt that returns true has read a
\* reply that contains expected_message, with or without
\* persistent_response_regex, the attempt that stores the first value
\* included.
C21_TrueContainsExpected ==
    (probe = "tcp" /\ ~opts.ExpectWriteFailure /\ tcpLast.kind # "none" /\ tcpLast.ret)
    => (tcpLast.kind = "read" /\ Contains(tcpLast.reply, opts.ExpectedMessage))

\* C22: TCPEcho: the connection an attempt opened is closed on every exit
\* path of the attempt, so none is open while the loop is between attempts
\* (and when the next attempt begins), and at most one is open at any time.
C22_ConnectionsClosed ==
    probe = "tcp" =>
        /\ conns <= 1
        /\ (gpc # "action" \/ dialed = "no") => conns = 0

\* An attempt that failed after its dial and one that succeeded have both
\* closed their connection, and a further attempt has its own open.
C22_Witness ==
    /\ probe = "tcp" /\ gpc = "action" /\ dialed = "ok" /\ conns = 1
    /\ Len(history) >= 2 /\ tcpLast.kind \in {"writeErr", "readErr", "read"}
    /\ ~tcpLast.ret
    /\ \E i \in 1..Len(history) : history[i].ret
    /\ \E i \in 1..Len(history) : ~history[i].ret

\* C23: local command: the create_file pre-step runs once, before the retry
\* loop; when creating the directory or the file, writing its contents or
\* resolving its absolute path fails, an error is recorded and the command
\* is never executed.
C23_PreStepFatal ==
    probe = "command" =>
        /\ files <= 1
        /\ gpc # "idle" => (ppc = "do" \/ ppc = "returned") /\
                           files = (IF opts.CreateFile THEN 1 ELSE 0)
        /\ (/\ opts.pre \in FilePreSteps
            /\ ppc # "ensure"
            /\ opts.pre = "abs" => ppc # "called")
           => (HasError(diag) /\ NoAttemptMade /\ cmdOutAt = 0)

\* The file was created but writing its contents failed: Create has failed
\* and no command ran.
C23_Witness ==
    /\ probe = "command" /\ opts.pre = "write" /\ files = 1
    /\ host = "failed" /\ HasError(diag) /\ NoAttemptMade

\* C24: local command: after every attempt (exit 0, non-zero exit,
\* per-attempt timeout or failure to start) stdout and stderr hold the
\* output of that attempt, never output an earlier attempt left; a non-zero
\* exit or a timeout is a failed attempt that is retried.
C24_OutputOfLastAttempt ==
    (probe = "command" /\ history # <<>>) =>
        /\ cmdOutAt \in {0, history[Len(history)].attempt}
        /\ cmdOut \in {"exitNonZero", "killed"} /\ cmdOutAt = history[Len(history)].attempt
              => ~history[Len(history)].ret

\* C25: HealthCheck: on return, result_body is the body captured from the
\* last attempt performed in the session; it never holds the body of an
\* earlier attempt when a later attempt has been performed.
C25_BodyOfLastAttempt ==
    (probe = "http" /\ ProbeReturned /\ httpAttempts > 0) =>
        /\ bodyAt \in {0, httpAttempts}
        /\ bodyAt = 0 => data.ResultBody = ""

\* =========================================================================
\* The two earlier engines of internal/helpers/retry.go: RetryWindow.Do with
\* MaxRetries (used by internal/provider) and RetryWindow.Do with MaxTries
\* =========================================================================
MaxLegacyTries == 3

\* The field of the engine that does not run is left 0.
LegacyWindows(variant) ==
    {w \in [MaxRetries : 0..MaxLegacyTries, MaxTries : 0..MaxLegacyTries,
            Timeout : 1..MaxTimeout, Interval : 0..MaxInterval,
            ConsecutiveSuccesses : 1..MaxSuccesses] :
        IF variant = "MaxRetries" THEN w.MaxTries = 0 ELSE w.MaxRetries = 0}

\* The state when Do has made its channels and started the goroutine, and
\* waits in its select.
InitLegacy ==
    /\ legVariant \in {"MaxRetries", "MaxTries"}
    /\ legW \in LegacyWindows(legVariant)
    /\ legNow = 0 /\ legPc = "test" /\ legWait = 0 /\ retries = 0 /\ legAttempt = 0
    /\ legSuccessCount = 0 /\ legResult = "none" /\ legCalls = 0
    /\ legEndAt = NoTime /\ legRetAt = NoTime
    /\ IdleStatusCode /\ IdleDo /\ IdleHttp /\ IdleProbe

\* ---- the engine with MaxRetries -----------------------------------------
\* The loop condition; when it fails the goroutine ends without a send.
MaxRetriesLoopTest ==
    /\ legVariant = "MaxRetries" /\ legPc = "test"
    /\ IF legW.MaxRetries = 0 \/ retries < legW.MaxRetries
       THEN /\ legPc' = "action"
            /\ \E d \in Durations(legW) : legWait' = d
       ELSE /\ legPc' = "exited"
            /\ UNCHANGED legWait
    /\ UNCHANGED <<legVariant, legW, legNow, retries, legAttempt, legSuccessCount,
                   legResult, legCalls, legEndAt, legRetAt, notLegVars>>

\* action(retries, successCount) returns b.
MaxRetriesActionReturns ==
    /\ legVariant = "MaxRetries" /\ legPc = "action" /\ legWait = 0
    /\ legCalls' = legCalls + 1
    /\ legEndAt' = legNow
    /\ \E b \in BOOLEAN :
         IF b
         THEN /\ legSuccessCount' = legSuccessCount + 1
              /\ retries' = 0
              /\ IF legSuccessCount + 1 >= legW.ConsecutiveSuccesses
                 THEN legPc' = "sendSuccess" /\ legWait' = 0
                 ELSE legPc' = "sleep" /\ legWait' = legW.Interval
         ELSE /\ legSuccessCount' = 0
              /\ retries' = retries + 1
              /\ legPc' = "sleep" /\ legWait' = legW.Interval
    /\ UNCHANGED <<legVariant, legW, legNow, legAttempt, legResult, legRetAt,
                   notLegVars>>

\* time.Sleep(r.Interval) returns.
MaxRetriesSleepReturns ==
    /\ legVariant = "MaxRetries" /\ legPc = "sleep" /\ legWait = 0
    /\ legPc' = "test"
    /\ UNCHANGED <<legVariant, legW, legNow, legWait, retries, legAttempt,
                   legSuccessCount, legResult, legCalls, legEndAt, legRetAt,
                   notLegVars>>

\* ---- the engine with MaxTries -------------------------------------------
lastTryNever(w, att, count) == FALSE

\* The tries that remain are fewer than the successes still required.
lastTry(w, att, count) == (w.MaxTries - att) < (w.ConsecutiveSuccesses - count)

\* The loop condition and the test at the top of the body; after the loop
\* the goroutine sends on lastTry.
MaxTriesLoopTest ==
    /\ legVariant = "MaxTries" /\ legPc = "test"
    /\ IF legAttempt < legW.MaxTries /\ ~lastTry(legW, legAttempt, legSuccessCount)
       THEN /\ legPc' = "action"
            /\ \E d \in Durations(legW) : legWait' = d
       ELSE /\ legPc' = "sendLastTry"
            /\ UNCHANGED legWait
    /\ UNCHANGED <<legVariant, legW, legNow, retries, legAttempt, legSuccessCount,
                   legResult, legCalls, legEndAt, legRetAt, notLegVars>>

\* action() returns b.
MaxTriesActionReturns ==
    /\ legVariant = "MaxTries" /\ legPc = "action" /\ legWait = 0
    /\ legCalls' = legCalls + 1
    /\ legEndAt' = legNow
    /\ \E b \in BOOLEAN :
         IF b
         THEN /\ legSuccessCount' = legSuccessCount + 1
              /\ IF legSuccessCount + 1 >= legW.ConsecutiveSuccesses
                 THEN legPc' = "sendSuccess" /\ legWait' = 0
                 ELSE legPc' = "sleep" /\ legWait' = legW.Interval
         ELSE /\ legSuccessCount' = 0
              /\ legPc' = "sleep" /\ legWait' = legW.Interval
    /\ UNCHANGED <<legVariant, legW, legNow, retries, legAttempt, legResult,
                   legRetAt, notLegVars>>

\* time.Sleep(r.Interval) returns and the for statement counts the attempt.
MaxTriesSleepReturns ==
    /\ legVariant = "MaxTries" /\ legPc = "sleep" /\ legWait = 0
    /\ legPc' = "test"
    /\ legAttempt' = legAttempt + 1
    /\ UNCHANGED <<legVariant, legW, legNow, legWait, retries, legSuccessCount,
                   legResult, legCalls, legEndAt, legRetAt, notLegVars>>

\* ---- the select of Do, the same in both engines -------------------------
LegacyReceivesSuccess ==
    /\ legResult = "none" /\ legPc = "sendSuccess"
    /\ legResult' = "Success" /\ legPc' = "exited" /\ legRetAt' = legNow
    /\ UNCHANGED <<legVariant, legW, legNow, legWait, retries, legAttempt,
                   legSuccessCount, legCalls, legEndAt, notLegVars>>

LegacyReceivesLastTry ==
    /\ legResult = "none" /\ legPc = "sendLastTry"
    /\ legResult' = "RetriesExceeded" /\ legPc' = "exited" /\ legRetAt' = legNow
    /\ UNCHANGED <<legVariant, legW, legNow, legWait, retries, legAttempt,
                   legSuccessCount, legCalls, legEndAt, notLegVars>>

LegacyTimesOut ==
    /\ legResult = "none" /\ legPc # "idle" /\ timerFired(legNow, legW)
    /\ legResult' = "TimeoutExceeded" /\ legRetAt' = legNow
    /\ UNCHANGED <<legVariant, legW, legNow, legPc, legWait, retries, legAttempt,
                   legSuccessCount, legCalls, legEndAt, notLegVars>>

\* A step that takes no time is ready.
LegacyUrgent ==
    \/ legPc = "test"
    \/ legPc \in {"action", "sleep"} /\ legWait = 0
    \/ legResult = "none" /\ (legPc \in {"sendSuccess", "sendLastTry"}
                              \/ timerFired(legNow, legW))

\* The clock advances when nothing is ready to run.
LegacyTick ==
    /\ legPc # "idle" /\ ~LegacyUrgent /\ legNow < MaxTime
    /\ legNow' = legNow + 1
    /\ legWait' = IF legPc \in {"action", "sleep"} /\ legWait > 0
                  THEN legWait - 1 ELSE legWait
    /\ UNCHANGED <<legVariant, legW, legPc, retries, legAttempt, legSuccessCount,
                   legResult, legCalls, legEndAt, legRetAt, notLegVars>>

NextLegacy ==
    \/ MaxRetriesLoopTest
    \/ MaxRetriesActionReturns
    \/ MaxRetriesSleepReturns
    \/ MaxTriesLoopTest
    \/ MaxTriesActionReturns
    \/ MaxTriesSleepReturns
    \/ LegacyReceivesSuccess
    \/ LegacyReceivesLastTry
    \/ LegacyTimesOut
    \/ LegacyTick

SpecLegacy == InitLegacy /\ [][NextLegacy]_vars

\* ---- claims about the earlier engines -----------------------------------
\* C26: the engine with MaxRetries: when MaxRetries > 0 and the failed
\* retries reach MaxRetries before Timeout has elapsed, Do returns
\* RetriesExceeded at that point.
C26_RetriesExceeded ==
    (/\ legVariant = "MaxRetries" /\ legW.MaxRetries > 0
     /\ retries >= legW.MaxRetries /\ legEndAt < legW.Timeout
     /\ legResult # "none")
    => (legResult = "RetriesExceeded" /\ legRetAt = legEndAt)

\* The tries that remain (MaxTries less the invocations that have returned)
\* are fewer than the consecutive successes still required.
TriesInsufficient ==
    /\ legVariant = "MaxTries"
    /\ (legW.MaxTries - legCalls) < (legW.ConsecutiveSuccesses - legSuccessCount)

\* The tick at which the goroutine, once the tries are insufficient, reaches
\* its send on lastTry: at once when no invocation was made, otherwise when
\* the sleep after the last invocation is over.
LastTryDue == IF legCalls = 0 THEN 0 ELSE legEndAt + legW.Interval

C28_CancelCooperative ==
    /\ [][(~ctxDone /\ ctxDone') => (gpc' = gpc /\ wait' = wait)]_vars
    /\ [](aborted = 0)
    /\ [](obsAt # NoTime => ctxDone)

\* C29: after Do has returned TimeoutExceeded, the loop it left behind
\* performs at most the attempt that was in flight when the deadline fired:
\* no attempt is started after Do has returned.
C29_NoAttemptAfterTimeout ==
    [][result = "TimeoutExceeded" => attempt' = attempt]_vars

\* The invocations of action that have begun and have not returned.
InFlight == attempt - Len(history)

\* C30: within one session at most one attempt executes at any time: an
\* invocation of the action starts only after the previous invocation has
\* returned and the interval sleep after it has completed.
C30_OneAttemptAtATime ==
    /\ [](InFlight \in {0, 1})
    /\ [](InFlight = 1 <=> gpc = "action")
    /\ [][attempt' # attempt =>
            /\ attempt' = attempt + 1
            /\ InFlight = 0
            /\ attempt > 0 => now >= endAt + r.Interval]_vars

\* A third attempt is in flight; it began exactly when the sleep after the
\* second one was over, and Do still waits.
C30_Witness ==
    /\ attempt = 3 /\ gpc = "action" /\ Len(history) = 2 /\ result = "none"
    /\ r.Interval >= 1 /\ wait > 0 /\ now = endAt + r.Interval

\* ---- further claims about RetryWindow.Do --------------------------------
\* The number of consecutive true results that end at the n-th invocation.
RECURSIVE TrailingTrues(_)
TrailingTrues(n) ==
    IF n = 0 \/ ~history[n].ret THEN 0 ELSE 1 + TrailingTrues(n - 1)

\* What every invocation received: attempt = its rank, counted from 1, and
\* successes = the consecutive trues just before it.
ArgumentsTrack ==
    /\ \A k \in 1..Len(history) :
          /\ history[k].attempt = k
          /\ history[k].successes = TrailingTrues(k - 1)
    /\ gpc = "action" =>
          (attempt = Len(history) + 1 /\ successCount = TrailingTrues(Len(history)))

\* C31 as stated: the k-th invocation of the action receives attempt = k and
\* successes = the number of consecutive true results immediately before it,
\* which always lies in 0..ConsecutiveSuccesses-1.
C31_ArgumentsInRange ==
    /\ ArgumentsTrack
    /\ \A k \in 1..Len(history) :
          history[k].successes \in 0..(r.ConsecutiveSuccesses - 1)

\* C31 amended: the k-th invocation receives attempt = k and successes = the
\* number of consecutive true results immediately before it; that number
\* lies in 0..ConsecutiveSuccesses-1 when ConsecutiveSuccesses >= 1 and is
\* always 0 when ConsecutiveSuccesses <= 0.
C31_ArgumentsTrack ==
    /\ ArgumentsTrack
    /\ \A k \in 1..Len(history) :
          IF r.ConsecutiveSuccesses >= 1
          THEN history[k].successes \in 0..(r.ConsecutiveSuccesses - 1)
          ELSE history[k].successes = 0

\* True, false, true, and a fourth invocation that received successes = 1.
C31_Witness ==
    /\ Len(history) >= 4 /\ r.ConsecutiveSuccesses = 3
    /\ history[1].ret /\ ~history[2].ret /\ history[3].ret
    /\ history[2].successes = 1 /\ history[3].successes = 0
    /\ history[4].attempt = 4 /\ history[4].successes = 1

\* ---- further claims about the probe sessions ----------------------------
\* C32: every probe function that calls the cancellation-aware Do builds
\* its RetryWindow with a non-nil Context, so the loop's cancellation check
\* never dereferences a missing context and no session crashes before its
\* first attempt.
C32_ContextNeverNil ==
    (probe \in Probes /\ gpc # "idle") =>
        (windowContext(probe) # "nil" /\ gpc # "panicked")

\* An invocation of the probe's closure by the attempt loop returns in this
\* step.
AttemptReturnsStep == Len(history') = Len(history) + 1

\* C33: once the probe function has returned to the host, the attempt loop
\* of its session does not write the caller's record or diagnostics again
\* (passed, result_body, stdout and stderr, errors and warnings).
C33_NoWriteAfterReturn ==
    [][(ProbeReturned /\ AttemptReturnsStep) =>
          /\ passed' = passed
          /\ data' = data /\ bodyAt' = bodyAt
          /\ cmdOut' = cmdOut /\ cmdOutAt' = cmdOutAt
          /\ diag' = diag]_vars

\* ---- the goroutine after Do has returned --------------------------------
\* The goroutine waits at a send that nothing will receive: the channels are
\* local to Do, and Do has left its select.
BlockedForever == Returned /\ gpc \in {"sendSuccess", "sendFailure"}

\* C34: in every execution in which no invocation of action hangs, the
\* attempt goroutine eventually exits; once Do has returned it is never
\* left blocked on a send on the success or failure channel, nor looping.
C34_GoroutineExits ==
    /\ <>(~NeverHung \/ gpc = "exited")
    /\ [](~BlockedForever)

\* C35: for each probe, whenever the session ended without Success
\* (TimeoutExceeded or Failure) and create_anyway_on_check_failure is
\* false, the probe function has recorded an error diagnostic, so Create
\* never persists the resource with passed = false.
C35_NoSuccessIsError ==
    (result \in {"TimeoutExceeded", "Failure"} /\ ~opts.IgnoreFailure) =>
        /\ ProbeReturned => HasError(diag)
        /\ host # "persistedFalse"

\* TCPEcho rejects the configuration before any attempt.
TcpConfigRejected ==
    \/ ~opts.ExpectWriteFailure /\ opts.ExpectedMessage = ""
    \/ opts.PersistentResponseRegex # "" /\ ~Compiles(opts.PersistentResponseRegex)

\* C36: TCPEcho: whenever it has returned without an attempt because the
\* configuration is rejected, it has recorded an error diagnostic and set
\* passed to false.
C36_RejectedConfigIsError ==
    (probe = "tcp" /\ ProbeReturned /\ TcpConfigRejected) =>
        (attempt = 0 /\ HasError(diag) /\ ~passed)

\* C37: once the context is cancelled no new attempt is started; in
\* particular, when the context is already cancelled at the call of Do,
\* the action is never invoked.
C37_NoAttemptAfterCancel ==
    [][ctxDone => (attempt' = attempt /\ (gpc' = "action" => gpc = "action"))]_vars

\* Do was called under a cancelled context and returned Failure without an
\* invocation of action.
C37_Witness ==
    /\ ctxDone /\ result = "Failure" /\ gpc = "exited"
    /\ attempt = 0 /\ history = <<>>

\* C38: with ConsecutiveSuccesses <= 0, Do behaves as with
\* ConsecutiveSuccesses = 1: the loop ends at the first invocation that
\* returns true, which gives Success when it comes before the deadline, and
\* Success is never returned without an invocation that returned true.
C38_NonPositiveAsOne ==
    r.ConsecutiveSuccesses <= 0 =>
        /\ \A c \in 1..(MaxSuccesses + 1) :
              reachedSuccesses(c, r) <=>
                  reachedSuccesses(c, [r EXCEPT !.ConsecutiveSuccesses = 1])
        /\ \A k \in 1..Len(history) :
              history[k].ret =>
                  (k = Len(history) /\ gpc \in {"sendSuccess", "exited"})
        /\ result = "Success" =>
              (Len(history) >= 1 /\ history[Len(history)].ret)
        /\ (/\ Returned /\ Len(history) >= 1 /\ history[Len(history)].ret
            /\ sigAt < r.Timeout)
              => result = "Success"

\* ConsecutiveSuccesses <= 0: two falses, then the first true gave Success.
C38_Witness ==
    /\ r.ConsecutiveSuccesses <= 0 /\ result = "Success"
    /\ Len(history) = 3
    /\ ~history[1].ret /\ ~history[2].ret /\ history[3].ret

====
